---------------------------- MODULE Spec2Model ----------------------------
(***************************************************************************)
(* Model of the banking risk-review server: the risk scorer                *)
(* (rag_logic/risk_scoring.py), the highlight extractor                    *)
(* (rag_logic/rag_highlights.py) and the report and escalation handlers    *)
(* (mcp_server/tools.py) over the data frames main.py loads at start, and  *)
(* the REST and JSON-RPC routes of mcp_server/main.py.                     *)
(*                                                                         *)
(* Conventions of the model                                                *)
(*   - A data frame is a sequence of rows (records), in CSV row order.     *)
(*   - A string is a sequence of tokens; an Optional value is <<>> (None)  *)
(*     or <<v>>.                                                           *)
(*   - A float is an extended rational [k, n, d]: k = "num" is n/d in      *)
(*     lowest terms with d > 0, k = "inf" is +inf (n = 1) or -inf          *)
(*     (n = -1), k = "nan" is NaN.  Arithmetic is exact: the rounding of   *)
(*     IEEE doubles is not modelled, the special values are.               *)
(*   - dscr, interest_coverage and current_ratio are held in tenths.       *)
(***************************************************************************)
EXTENDS Integers, Sequences, FiniteSets, TLC

VARIABLES
    companies,                  \* main.py:64  frame of [company_id, company_name]
    financials,                 \* main.py:65  frame of [company_id, year, ebitda]
    exposure,                   \* main.py:66  frame of [company_id, utilized_amount, sanctioned_limit]
    covenants,                  \* main.py:67  frame of [company_id, ebitda_min_requirement, dscr, ...]
    ews,                        \* main.py:68  frame of [company_id, event, event_date, severity]
    year_column,                \* whether financials.csv carries a "year" column
    PUBLIC_BASE_URL,            \* tools.py:18
    WEBSITE_HOSTNAME,           \* tools.py:19
    TEAMS_WORKFLOW_WEBHOOK_URL, \* tools.py:21
    today,                      \* the day datetime.date.today() returns
    store,                      \* files under REPORT_DIR: location -> content
    posts,                      \* number of requests.post calls made so far
    resp                        \* the request last handled and its outcome

vars == <<companies, financials, exposure, covenants, ews, year_column,
          PUBLIC_BASE_URL, WEBSITE_HOSTNAME, TEAMS_WORKFLOW_WEBHOOK_URL,
          today, store, posts, resp>>

-----------------------------------------------------------------------------
(* Bounds of the model *)

MaxFin == 2
MaxCov == 2
MaxExp == 2
MaxEws == 2

-----------------------------------------------------------------------------
(* Optional values and sequences *)

None == <<>>
Some(v) == <<v>>

SeqsUpTo(S, n) == UNION {[1..k -> S] : k \in 0..n}

Last(s) == s[Len(s)]

-----------------------------------------------------------------------------
(* Floats as extended rationals *)

Abs(x) == IF x < 0 THEN -x ELSE x

RECURSIVE GCD(_, _)
GCD(a, b) == IF b = 0 THEN a ELSE GCD(b, a % b)

Num(n, d) == LET g == GCD(Abs(n), d) IN [k |-> "num", n |-> n \div g, d |-> d \div g]
PInf == [k |-> "inf", n |-> 1, d |-> 0]
NInf == [k |-> "inf", n |-> -1, d |-> 0]
NaN == [k |-> "nan", n |-> 0, d |-> 0]

\* a / b on two numpy scalars: a zero divisor gives inf, -inf or nan, no exception
FDiv(a, b) ==
    IF b = 0 THEN (IF a > 0 THEN PInf ELSE IF a < 0 THEN NInf ELSE NaN)
    ELSE IF b > 0 THEN Num(a, b) ELSE Num(-a, -b)

\* 1 - x
FOneMinus(x) ==
    IF x.k = "num" THEN Num(x.d - x.n, x.d)
    ELSE IF x.k = "inf" THEN [x EXCEPT !.n = -x.n]
    ELSE NaN

\* (p/q) * x for a positive literal p/q
FScale(p, q, x) == IF x.k = "num" THEN Num(p * x.n, q * x.d) ELSE x

FAdd(x, y) ==
    IF x.k = "nan" \/ y.k = "nan" THEN NaN
    ELSE IF x.k = "inf" /\ y.k = "inf" THEN (IF x.n = y.n THEN x ELSE NaN)
    ELSE IF x.k = "inf" THEN x
    ELSE IF y.k = "inf" THEN y
    ELSE Num(x.n * y.d + y.n * x.d, x.d * y.d)

\* x < y; every comparison with NaN is false
FLess(x, y) ==
    IF x.k = "nan" \/ y.k = "nan" THEN FALSE
    ELSE IF x.k = "inf" THEN x.n = -1 /\ ~(y.k = "inf" /\ y.n = -1)
    ELSE IF y.k = "inf" THEN y.n = 1
    ELSE x.n * y.d < y.n * x.d

-----------------------------------------------------------------------------
(* Outcome of a call: a returned value or a raised exception *)

Return(v) == [exc |-> "none", status_code |-> 0, detail |-> "", value |-> v]
Raise(e, code, text) == [exc |-> e, status_code |-> code, detail |-> text, value |-> <<>>]

\* Series.iloc[i] on an empty selection
IndexError == Raise("IndexError", 0, "single positional indexer is out-of-bounds")

-----------------------------------------------------------------------------
(* rag_logic/risk_scoring.py *)

\* ews_severity_mapping.get(ev, 0), in tenths
ews_severity_mapping(ev) ==
    CASE ev = "Low" -> 3
      [] ev = "Medium" -> 6
      [] ev = "High" -> 10
      [] OTHER -> 0

\* the weight of the last event instead of the largest
ews_severity_last(ews_events) ==
    IF Len(ews_events) = 0 THEN 0
    ELSE ews_severity_mapping(Last(ews_events).severity)

\* max([...], default=0), in tenths
ews_severity(ews_events) ==
    IF Len(ews_events) = 0 THEN 0
    ELSE LET ws == {ews_severity_mapping(ews_events[i].severity) : i \in 1..Len(ews_events)}
         IN CHOOSE w \in ws : \A v \in ws : v <= w

\* sum([1 if dscr >= 1 ..., 1 if interest_coverage >= 1.5 ..., 1 if current_ratio >= 1 ...])
covenant_passes(c) ==
    (IF c.dscr >= 10 THEN 1 ELSE 0)
    + (IF c.interest_coverage >= 15 THEN 1 ELSE 0)
    + (IF c.current_ratio >= 10 THEN 1 ELSE 0)

\* the thresholds taken inclusively: score <= 0.3 is Low, score <= 0.6 is Medium
risk_rating_inclusive(risk_score) ==
    IF ~FLess(Num(3, 10), risk_score) THEN "Low"
    ELSE IF ~FLess(Num(6, 10), risk_score) THEN "Medium"
    ELSE "High"

risk_rating_of(risk_score) ==
    IF FLess(risk_score, Num(3, 10)) THEN "Low"
    ELSE IF FLess(risk_score, Num(6, 10)) THEN "Medium"
    ELSE "High"

\* the score clamped to [0, 1]
FClamp(x) ==
    IF FLess(x, Num(0, 1)) THEN Num(0, 1) ELSE IF FLess(Num(1, 1), x) THEN Num(1, 1) ELSE x

compute_risk_score_clamped(fin, exp, cov, ews_events) ==
    IF Len(fin) = 0 \/ Len(cov) = 0 \/ Len(exp) = 0 THEN IndexError
    ELSE
        LET ebitda_ratio == FDiv(Last(fin).ebitda, cov[1].ebitda_min_requirement)
            utilization_ratio == FDiv(exp[1].utilized_amount, exp[1].sanctioned_limit)
            covenant_compliance == Num(covenant_passes(cov[1]), 3)
            risk_score ==
                FClamp(FAdd(FAdd(FAdd(FScale(4, 10, FOneMinus(ebitda_ratio)),
                                      FScale(3, 10, utilization_ratio)),
                                 FScale(2, 10, FOneMinus(covenant_compliance))),
                            FScale(1, 10, Num(ews_severity(ews_events), 10))))
        IN Return([risk_score |-> risk_score, rating |-> risk_rating_of(risk_score)])

compute_risk_score(fin, exp, cov, ews_events) ==
    IF Len(fin) = 0 \/ Len(cov) = 0 \/ Len(exp) = 0 THEN IndexError
    ELSE
        LET ebitda_ratio == FDiv(Last(fin).ebitda, cov[1].ebitda_min_requirement)
            utilization_ratio == FDiv(exp[1].utilized_amount, exp[1].sanctioned_limit)
            covenant_compliance == Num(covenant_passes(cov[1]), 3)
            risk_score ==
                FAdd(FAdd(FAdd(FScale(4, 10, FOneMinus(ebitda_ratio)),
                               FScale(3, 10, utilization_ratio)),
                          FScale(2, 10, FOneMinus(covenant_compliance))),
                     FScale(1, 10, Num(ews_severity(ews_events), 10)))
        IN Return([risk_score |-> risk_score, rating |-> risk_rating_of(risk_score)])

-----------------------------------------------------------------------------
(* rag_logic/rag_highlights.py *)

EbitdaHighlight == <<"EBITDA is below covenant minimum requirement.">>
UtilizationHighlight == <<"Loan utilization exceeds 80% of sanctioned limit.">>
AlertHighlight(row) == <<"High severity alert: ", row.event, " on ", row.event_date>>

high_ews(ews_events) == SelectSeq(ews_events, LAMBDA row : row.severity = "High")

\* the utilization rule taken inclusively: a ratio of exactly 0.8 fires
generate_rag_highlights_inclusive(fin, cov, exp, ews_events) ==
    IF Len(fin) = 0 \/ Len(cov) = 0 \/ Len(exp) = 0 THEN IndexError
    ELSE
        LET h1 == IF Last(fin).ebitda < cov[1].ebitda_min_requirement
                  THEN <<EbitdaHighlight>> ELSE <<>>
            h2 == IF ~FLess(FDiv(exp[1].utilized_amount, exp[1].sanctioned_limit), Num(8, 10))
                  THEN <<UtilizationHighlight>> ELSE <<>>
            h3 == [i \in 1..Len(high_ews(ews_events)) |-> AlertHighlight(high_ews(ews_events)[i])]
        IN Return(h1 \o h2 \o h3)

generate_rag_highlights(fin, cov, exp, ews_events) ==
    IF Len(fin) = 0 \/ Len(cov) = 0 \/ Len(exp) = 0 THEN IndexError
    ELSE
        LET h1 == IF Last(fin).ebitda < cov[1].ebitda_min_requirement
                  THEN <<EbitdaHighlight>> ELSE <<>>
            h2 == IF FLess(Num(8, 10), FDiv(exp[1].utilized_amount, exp[1].sanctioned_limit))
                  THEN <<UtilizationHighlight>> ELSE <<>>
            h3 == [i \in 1..Len(high_ews(ews_events)) |-> AlertHighlight(high_ews(ews_events)[i])]
        IN Return(h1 \o h2 \o h3)

-----------------------------------------------------------------------------
(* Inputs of the scorer and the extractor *)

FinRow(c, y, e) == [company_id |-> c, year |-> y, ebitda |-> e]
CovRow(c, m, d, i, r) ==
    [company_id |-> c, ebitda_min_requirement |-> m, dscr |-> d,
     interest_coverage |-> i, current_ratio |-> r]
ExpRow(c, u, s) == [company_id |-> c, utilized_amount |-> u, sanctioned_limit |-> s]
EwsRow(c, ev, dt, sev) == [company_id |-> c, event |-> ev, event_date |-> dt, severity |-> sev]

\* A frame whose first row is drawn from Rows, followed by rows of After
FirstThen(Rows, After, n) ==
    {<<>>} \cup {<<r>> \o t : r \in Rows, t \in SeqsUpTo(After, n - 1)}

\* A frame whose last row is drawn from Rows, preceded by rows of Before
ThenLast(Before, Rows, n) ==
    {<<>>} \cup {h \o <<r>> : h \in SeqsUpTo(Before, n - 1), r \in Rows}

Severities == {"Low", "Medium", "High", "Unknown"}

ScoreFin ==
    ThenLast({FinRow("C1", 2023, 50)},
             {FinRow("C1", 2024, e) : e \in {80, 100, 250}}, MaxFin)
ScoreCov ==
    FirstThen({CovRow("C1", m, d, i, r) :
                   m \in {0, 100}, d \in {9, 10}, i \in {14, 15}, r \in {9, 10}},
              {CovRow("C1", 50, 9, 14, 9)}, MaxCov)
ScoreExp ==
    FirstThen({ExpRow("C1", u, s) : u \in {80, 100, 400}, s \in {0, 100}},
              {ExpRow("C1", 10, 50)}, MaxExp)
\* every frame of up to MaxEws events, and the frame of one event per severity
ScoreEws ==
    SeqsUpTo({EwsRow("C1", "Missed payment", "2024-01-01", s) : s \in Severities}, MaxEws)
    \cup {[i \in 1..4 |-> EwsRow("C1", "Missed payment", "2024-01-01",
                                  <<"Low", "Medium", "High", "Unknown">>[i])]}

NoResp == [op |-> "none"]

InitScore ==
    /\ companies = <<>>
    /\ financials \in ScoreFin
    /\ covenants \in ScoreCov
    /\ exposure \in ScoreExp
    /\ ews \in ScoreEws
    /\ year_column = TRUE
    /\ PUBLIC_BASE_URL = <<>>
    /\ WEBSITE_HOSTNAME = <<>>
    /\ TEAMS_WORKFLOW_WEBHOOK_URL = <<>>
    /\ today = 1
    /\ store = <<>>
    /\ posts = 0
    /\ resp = NoResp

\* client_demo.py:42: the scorer applied to the four frames of one company
Score ==
    /\ resp' = [op |-> "compute_risk_score",
                out |-> compute_risk_score(financials, exposure, covenants, ews)]
    /\ UNCHANGED <<companies, financials, exposure, covenants, ews, year_column,
                   PUBLIC_BASE_URL, WEBSITE_HOSTNAME, TEAMS_WORKFLOW_WEBHOOK_URL,
                   today, store, posts>>

NextScore == Score

SpecScore == InitScore /\ [][NextScore]_vars

-----------------------------------------------------------------------------
(* Claims about the scorer, checked under SpecScore *)

Scored == resp.op = "compute_risk_score"
NonEmptyInputs == Len(financials) > 0 /\ Len(covenants) > 0 /\ Len(exposure) > 0
NonZeroDivisors ==
    covenants[1].ebitda_min_requirement # 0 /\ exposure[1].sanctioned_limit # 0

\* the number of covenant tests the first covenant row passes
PassCount ==
    Cardinality({t \in {"dscr", "interest_coverage", "current_ratio"} :
        \/ t = "dscr" /\ covenants[1].dscr >= 10
        \/ t = "interest_coverage" /\ covenants[1].interest_coverage >= 15
        \/ t = "current_ratio" /\ covenants[1].current_ratio >= 10})

\* the largest severity weight among the events, in tenths
MaxWeight ==
    LET has(sev) == \E i \in 1..Len(ews) : ews[i].severity = sev
    IN IF has("High") THEN 10 ELSE IF has("Medium") THEN 6 ELSE IF has("Low") THEN 3 ELSE 0

\* C1: with non-empty financials, exposure and covenants and non-zero divisors,
\* compute_risk_score returns the finite value
\*   0.4*(1 - e/m) + 0.3*u/s + 0.2*(1 - passes/3) + 0.1*weight
\* with e the last financial row's EBITDA, m and the passes from the first covenant
\* row, u/s from the first exposure row; it is not clamped to [0, 1].
\* Stated over the common denominator 300*m*s.
C1_ScoreFormula ==
    (Scored /\ NonEmptyInputs /\ NonZeroDivisors) =>
        LET e == financials[Len(financials)].ebitda
            m == covenants[1].ebitda_min_requirement
            u == exposure[1].utilized_amount
            s == exposure[1].sanctioned_limit
            N == 120 * (m - e) * s + 90 * u * m + 20 * (3 - PassCount) * m * s
                 + 3 * MaxWeight * m * s
            D == 300 * m * s
            r == resp.out.value.risk_score
        IN /\ resp.out.exc = "none"
           /\ r.k = "num"
           /\ r.n * D = r.d * N

\* C1 witness: a score below zero has been returned (ebitda_ratio large enough)
C1_NegativeScore ==
    /\ Scored /\ NonEmptyInputs /\ NonZeroDivisors
    /\ resp.out.exc = "none"
    /\ resp.out.value.risk_score.k = "num"
    /\ resp.out.value.risk_score.n < 0
    /\ resp.out.value.rating = "Low"

\* C2: the rating is Low exactly when score < 0.3, Medium exactly when
\* 0.3 <= score < 0.6, and High otherwise (NaN and +inf included, -inf is Low).
C2_RatingThresholds ==
    (Scored /\ resp.out.exc = "none") =>
        LET r == resp.out.value.risk_score
            rating == resp.out.value.rating
            below3 == (r.k = "num" /\ 10 * r.n < 3 * r.d) \/ (r.k = "inf" /\ r.n = -1)
            below6 == (r.k = "num" /\ 10 * r.n < 6 * r.d) \/ (r.k = "inf" /\ r.n = -1)
        IN /\ rating = "Low" <=> below3
           /\ rating = "Medium" <=> (~below3 /\ below6)
           /\ rating = "High" <=> ~below6

\* C2 witness: a score of exactly 0.3 has been rated Medium
C2_ExactlyThreeTenths ==
    /\ Scored /\ resp.out.exc = "none"
    /\ resp.out.value.risk_score = [k |-> "num", n |-> 3, d |-> 10]
    /\ resp.out.value.rating = "Medium"

\* C4 (as claimed): a zero ebitda_min_requirement or a zero sanctioned_limit in the
\* first row makes compute_risk_score signal an error and return no pair.
C4_ZeroDivisorRejected ==
    (Scored /\ NonEmptyInputs /\ ~NonZeroDivisors) => resp.out.exc # "none"

\* C7: the early-warning term of the score is 0.1 times the largest weight over all
\* events (Low 0.3, Medium 0.6, High 1.0, anything else 0, no events 0), and an
\* unknown severity raises no error: the score is the score of the same inputs
\* without events plus that term.
C7_MaxSeverityWeight ==
    (Scored /\ NonEmptyInputs) =>
        /\ resp.out.exc = "none"
        /\ resp.out.value.risk_score =
               FAdd(compute_risk_score(financials, exposure, covenants, <<>>).value.risk_score,
                    Num(MaxWeight, 100))

\* C7 witness: events of severity Low, Medium, High and Unknown were scored, with
\* the early-warning term at its maximum
C7_AllSeverities ==
    /\ Scored /\ NonEmptyInputs /\ NonZeroDivisors
    /\ {ews[i].severity : i \in 1..Len(ews)} = Severities
    /\ MaxWeight = 10
    /\ resp.out.exc = "none"

-----------------------------------------------------------------------------
(* The extractor applied to the four frames of one company *)

HlFin == ScoreFin
HlCov ==
    FirstThen({CovRow("C1", m, 10, 15, 10) : m \in {0, 100}},
              {CovRow("C1", 50, 9, 14, 9)}, MaxCov)
HlExp == ScoreExp
HlEws ==
    SeqsUpTo({EwsRow("C1", "Missed payment", "2024-01-01", s) : s \in {"High", "Medium"}}
             \cup {EwsRow("C1", "Rating downgrade", "2023-06-30", s) : s \in {"High", "Medium"}},
             MaxEws)

InitHighlights ==
    /\ companies = <<>>
    /\ financials \in HlFin
    /\ covenants \in HlCov
    /\ exposure \in HlExp
    /\ ews \in HlEws
    /\ year_column = TRUE
    /\ PUBLIC_BASE_URL = <<>>
    /\ WEBSITE_HOSTNAME = <<>>
    /\ TEAMS_WORKFLOW_WEBHOOK_URL = <<>>
    /\ today = 1
    /\ store = <<>>
    /\ posts = 0
    /\ resp = NoResp

Highlights ==
    /\ resp' = [op |-> "generate_rag_highlights",
                out |-> generate_rag_highlights(financials, covenants, exposure, ews)]
    /\ UNCHANGED <<companies, financials, exposure, covenants, ews, year_column,
                   PUBLIC_BASE_URL, WEBSITE_HOSTNAME, TEAMS_WORKFLOW_WEBHOOK_URL,
                   today, store, posts>>

NextHighlights == Highlights

SpecHighlights == InitHighlights /\ [][NextHighlights]_vars

\* whether the EBITDA rule and the utilization rule apply to the frames
EbitdaBelow == financials[Len(financials)].ebitda < covenants[1].ebitda_min_requirement
\* u/s > 0.8, cross-multiplied; a zero limit makes the quotient +inf for u > 0
UtilizationOver ==
    LET u == exposure[1].utilized_amount
        s == exposure[1].sanctioned_limit
    IN IF s > 0 THEN 10 * u > 8 * s ELSE IF s < 0 THEN 10 * u < 8 * s ELSE u > 0
HighCountUpTo(i) == Cardinality({j \in 1..i : ews[j].severity = "High"})

\* C6: with non-empty financials, covenants and exposure the list is, in this
\* order: the EBITDA string iff the last EBITDA is below the first covenant row's
\* minimum; the utilization string iff utilized/sanctioned > 0.8 strictly; one entry
\* per High event, in input row order; and nothing else.
C6_HighlightOrder ==
    (resp.op = "generate_rag_highlights" /\ NonEmptyInputs) =>
        LET h == resp.out.value
            a == IF EbitdaBelow THEN 1 ELSE 0
            b == IF UtilizationOver THEN 1 ELSE 0
        IN /\ resp.out.exc = "none"
           /\ Len(h) = a + b + HighCountUpTo(Len(ews))
           /\ EbitdaBelow => h[1] = <<"EBITDA is below covenant minimum requirement.">>
           /\ UtilizationOver =>
                  h[a + 1] = <<"Loan utilization exceeds 80% of sanctioned limit.">>
           /\ \A i \in 1..Len(ews) :
                  ews[i].severity = "High" =>
                      /\ Len(h[a + b + HighCountUpTo(i)]) = 4
                      /\ h[a + b + HighCountUpTo(i)][2] = ews[i].event
                      /\ h[a + b + HighCountUpTo(i)][4] = ews[i].event_date

\* C6 witness: all three rules fired, with two High events whose row order is not
\* their date order
C6_AllRulesFire ==
    /\ resp.op = "generate_rag_highlights" /\ NonEmptyInputs
    /\ resp.out.exc = "none"
    /\ EbitdaBelow /\ UtilizationOver
    /\ Len(ews) = 2
    /\ ews[1].severity = "High" /\ ews[2].severity = "High"
    /\ ews[1].event_date = "2024-01-01" /\ ews[2].event_date = "2023-06-30"
    /\ Len(resp.out.value) = 4

-----------------------------------------------------------------------------
(* Strings as token sequences *)

\* s.replace(a, b): every occurrence of token a becomes b
Replace(s, a, b) == [i \in 1..Len(s) |-> IF s[i] = a THEN b ELSE s[i]]

\* s.lstrip(t) and s.rstrip(t) for a one-character token t
RECURSIVE LStrip(_, _)
LStrip(s, t) == IF Len(s) > 0 /\ s[1] = t THEN LStrip(SubSeq(s, 2, Len(s)), t) ELSE s

RECURSIVE RStrip(_, _)
RStrip(s, t) == IF Len(s) > 0 /\ s[Len(s)] = t THEN RStrip(SubSeq(s, 1, Len(s) - 1), t) ELSE s

\* s.strip(): leading and trailing blanks removed
Strip(s) == RStrip(LStrip(s, " "), " ")

\* x_agent_id.startswith("agent-")
StartsWithAgent(s) == Len(s) > 0 /\ s[1] = "agent-"

\* not x_agent_id or not x_agent_id.startswith("agent-"), x_agent_id an Optional string
InvalidAgent(x_agent_id) ==
    \/ x_agent_id = None
    \/ x_agent_id[1] = <<>>
    \/ ~StartsWithAgent(x_agent_id[1])

-----------------------------------------------------------------------------
(* mcp_server/tools.py: locations and public URLs *)

\* os.getenv("PUBLIC_BASE_URL", "").strip().rstrip("/")
BaseUrlFromEnv(v) == RStrip(Strip(v), "/")

REPORT_DIR == <<"/home/site/wwwroot", "/", "reports", "/", "generated_reports">>

\* f"{datetime.date.today()}"
DateStr(day) == "day-" \o ToString(day)

\* os.path.join of relative parts, separators normalised, leading "/" stripped
_to_web_path(dir1, dir2, name) == LStrip(<<dir1, "/", dir2, "/">> \o name, "/")

_public_base_url ==
    IF PUBLIC_BASE_URL # <<>> THEN PUBLIC_BASE_URL
    ELSE IF WEBSITE_HOSTNAME # <<>> THEN <<"https://">> \o WEBSITE_HOSTNAME
    ELSE <<>>

\* the base and the location joined without the "/"
_make_public_url_no_slash(rel_web_path) ==
    IF rel_web_path = None \/ rel_web_path[1] = <<>> THEN None
    ELSE IF _public_base_url # <<>>
         THEN Some(_public_base_url \o LStrip(rel_web_path[1], "/"))
         ELSE None

\* rel_web_path is an Optional string
_make_public_url(rel_web_path) ==
    IF rel_web_path = None \/ rel_web_path[1] = <<>> THEN None
    ELSE IF _public_base_url # <<>>
         THEN Some(_public_base_url \o <<"/">> \o LStrip(rel_web_path[1], "/"))
         ELSE None

\* f"{company_name.replace(' ','_')}_Risk_Report_{datetime.date.today()}.docx"
report_name(company_name, day) ==
    Replace(company_name, " ", "_") \o <<"_Risk_Report_", DateStr(day), ".docx">>

-----------------------------------------------------------------------------
(* mcp_server/tools.py: create_word_report *)

InsufficientData == Raise("HTTPException", 400, "Insufficient data to generate report")

\* The rows financials.sort_values("year").iloc[-1] can be: with a year column a row
\* of the largest year (pandas' default sort is not stable, so any of several rows
\* of that year), without one the last row.  An Optional row: None for no rows.
SortedLast(fin) ==
    IF Len(fin) = 0 THEN {None}
    ELSE IF year_column
         THEN {Some(fin[i]) : i \in {j \in 1..Len(fin) : \A k \in 1..Len(fin) : fin[k].year <= fin[j].year}}
         ELSE {Some(Last(fin))}

\* The document: the paragraphs of the template that carry data.  The risk score
\* is kept as its value, not as the two-decimal text.
Document(company_name, latest_fin, exp, cov, ews_events, risk_score, risk_rating, rag_highlights) ==
    [title |-> company_name \o <<" - Quaterly Risk Review">>,
     financial_summary |-> latest_fin,
     loan_exposure |-> exp[1],
     covenant_compliance |-> cov[1],
     early_warning_signals |->
         [i \in 1..Len(ews_events) |-> <<ews_events[i].event_date, ews_events[i].event>>],
     risk_score |-> risk_score,
     risk_rating |-> risk_rating,
     key_highlights |-> rag_highlights]

\* the PDF locations left set when the conversion fails
create_word_report_keeps_pdf(company_name, fin, exp, cov, ews_events, risk_score, risk_rating, rag_highlights, latest_fin, pdf_ok, files) ==
    IF Len(fin) = 0 \/ Len(exp) = 0 \/ Len(cov) = 0
    THEN [out |-> InsufficientData, files |-> files, convert |-> "not attempted"]
    ELSE
        LET doc == Document(company_name, latest_fin[1], exp, cov, ews_events,
                            risk_score, risk_rating, rag_highlights)
            name == report_name(company_name, today)
            abs_word_path == REPORT_DIR \o <<"/">> \o name
            rel_web_word_path == _to_web_path("reports", "generated_reports", name)
            saved == (abs_word_path :> doc) @@ files
            abs_pdf_path == Some(Replace(abs_word_path, ".docx", ".pdf"))
            rel_web_pdf_path == Some(Replace(rel_web_word_path, ".docx", ".pdf"))
            converted == IF pdf_ok THEN (abs_pdf_path[1] :> doc) @@ saved ELSE saved
        IN [out |-> Return([word |-> rel_web_word_path,
                            pdf |-> rel_web_pdf_path,
                            word_url |-> _make_public_url(Some(rel_web_word_path)),
                            pdf_url |-> _make_public_url(rel_web_pdf_path),
                            rag_highlights |-> rag_highlights]),
            files |-> converted,
            convert |-> IF pdf_ok THEN "ok" ELSE "failed"]

\* latest_fin is the row the sort leaves last, pdf_ok whether docx2pdf converts,
\* files the report directory before the call.  The result carries the outcome, the
\* report directory after the call and what became of the conversion.
create_word_report(company_name, fin, exp, cov, ews_events, risk_score, risk_rating, rag_highlights, latest_fin, pdf_ok, files) ==
    IF Len(fin) = 0 \/ Len(exp) = 0 \/ Len(cov) = 0
    THEN [out |-> InsufficientData, files |-> files, convert |-> "not attempted"]
    ELSE
        LET doc == Document(company_name, latest_fin[1], exp, cov, ews_events,
                            risk_score, risk_rating, rag_highlights)
            name == report_name(company_name, today)
            abs_word_path == REPORT_DIR \o <<"/">> \o name
            rel_web_word_path == _to_web_path("reports", "generated_reports", name)
            saved == (abs_word_path :> doc) @@ files
            abs_pdf_path == IF pdf_ok THEN Some(Replace(abs_word_path, ".docx", ".pdf")) ELSE None
            rel_web_pdf_path ==
                IF pdf_ok THEN Some(Replace(rel_web_word_path, ".docx", ".pdf")) ELSE None
            converted == IF pdf_ok THEN (abs_pdf_path[1] :> doc) @@ saved ELSE saved
            word_url == _make_public_url(Some(rel_web_word_path))
            pdf_url == IF pdf_ok THEN _make_public_url(rel_web_pdf_path) ELSE None
        IN [out |-> Return([word |-> rel_web_word_path,
                            pdf |-> rel_web_pdf_path,
                            word_url |-> word_url,
                            pdf_url |-> pdf_url,
                            rag_highlights |-> rag_highlights]),
            files |-> converted,
            convert |-> IF pdf_ok THEN "ok" ELSE "failed"]

-----------------------------------------------------------------------------
(* mcp_server/tools.py: generate_report_internal *)

\* frame[frame["company_id"] == company_id]
OfCompany(frame, company_id) == SelectSeq(frame, LAMBDA row : row.company_id = company_id)

\* The result carries the outcome, the helpers entered in call order, the report
\* directory after the call and what became of the PDF conversion.
Unauthorized ==
    [out |-> Raise("HTTPException", 401, "Invalid or missing Agent ID"),
     calls |-> <<>>, files |-> store, convert |-> "not attempted"]

\* generate_report_internal from the company lookup on
generate_report_authorized(company_id, latest_fin, pdf_ok) ==
    IF Len(OfCompany(companies, company_id)) = 0
    THEN [out |-> Raise("HTTPException", 404, "Company not found"),
          calls |-> <<>>, files |-> store, convert |-> "not attempted"]
    ELSE
        LET company_name == OfCompany(companies, company_id)[1].company_name
            fin == OfCompany(financials, company_id)
            exp == OfCompany(exposure, company_id)
            cov == OfCompany(covenants, company_id)
            ews_events == OfCompany(ews, company_id)
            scored == compute_risk_score(fin, exp, cov, ews_events)
            rag == generate_rag_highlights(fin, cov, exp, ews_events)
            report_paths ==
                create_word_report(company_name, fin, exp, cov, ews_events,
                                   scored.value.risk_score, scored.value.rating,
                                   rag.value, latest_fin, pdf_ok, store)
        IN IF scored.exc # "none"
           THEN [out |-> scored, calls |-> <<"compute_risk_score">>,
                 files |-> store, convert |-> "not attempted"]
           ELSE IF rag.exc # "none"
           THEN [out |-> rag, calls |-> <<"compute_risk_score", "generate_rag_highlights">>,
                 files |-> store, convert |-> "not attempted"]
           ELSE IF report_paths.out.exc # "none"
           THEN [out |-> report_paths.out,
                 calls |-> <<"compute_risk_score", "generate_rag_highlights", "create_word_report">>,
                 files |-> report_paths.files, convert |-> report_paths.convert]
           ELSE [out |-> Return([status |-> "report_generated",
                                 company |-> company_name,
                                 risk_score |-> scored.value.risk_score,
                                 risk_rating |-> scored.value.rating,
                                 word_report |-> report_paths.out.value.word,
                                 word_report_url |-> report_paths.out.value.word_url,
                                 pdf_report |-> report_paths.out.value.pdf,
                                 pdf_report_url |-> report_paths.out.value.pdf_url,
                                 rag_highlights |-> report_paths.out.value.rag_highlights]),
                 calls |-> <<"compute_risk_score", "generate_rag_highlights", "create_word_report">>,
                 files |-> report_paths.files, convert |-> report_paths.convert]

\* the agent id checked only once the report is built
generate_report_checks_last(company_id, x_agent_id, latest_fin, pdf_ok) ==
    LET r == generate_report_authorized(company_id, latest_fin, pdf_ok)
    IN IF InvalidAgent(x_agent_id)
       THEN [out |-> Unauthorized.out, calls |-> r.calls, files |-> r.files, convert |-> r.convert]
       ELSE r

generate_report_internal(company_id, x_agent_id, latest_fin, pdf_ok) ==
    IF InvalidAgent(x_agent_id) THEN Unauthorized
    ELSE generate_report_authorized(company_id, latest_fin, pdf_ok)

-----------------------------------------------------------------------------
(* Report requests over the loaded frames *)

AcmeCorp == <<"Acme", " ", "Corp">>
CompanyIds == {"C1", "C2", "C9"}
AgentIds == {None, Some(<<>>), Some(<<"agent-", "demo-001">>), Some(<<"x-", "agent-", "1">>)}

CompanyRow(c, name) == [company_id |-> c, company_name |-> name]

\* C1 alone; C1 after a C2 whose name differs from C1's only by "_" for " "; C1
\* before a C2 of another name
ReportCompanies ==
    {<<CompanyRow("C1", AcmeCorp)>>,
     <<CompanyRow("C2", <<"Acme", "_", "Corp">>), CompanyRow("C1", AcmeCorp)>>,
     <<CompanyRow("C1", AcmeCorp), CompanyRow("C2", <<"Zenith">>)>>}

ReportFin == SeqsUpTo({FinRow("C1", 2023, 80), FinRow("C1", 2024, 250)}, MaxFin)
ReportCov == {<<>>} \cup {<<CovRow("C1", m, 12, 20, 11)>> : m \in {0, 100}}
ReportExp == {<<>>} \cup {<<ExpRow("C1", 90, s)>> : s \in {0, 100}}
ReportEws == SeqsUpTo({EwsRow("C1", "Missed payment", "2024-01-01", "High")}, MaxEws)

BaseUrlEnv == {<<>>, <<" ">>, <<"https://bank.example">>, <<" ", "https://bank.example", "/", " ">>}
HostnameEnv == {<<>>, <<"bank.azurewebsites.net">>}

\* The frames of C1 vary; C1 is the only company and the base address is set
DataCases ==
    /\ companies = <<CompanyRow("C1", AcmeCorp)>>
    /\ \E f \in ReportFin, c \in ReportCov, x \in ReportExp, w \in ReportEws :
          /\ financials = f \o <<FinRow("C2", 2024, 120)>>
          /\ covenants = <<CovRow("C2", 100, 12, 20, 11)>> \o c
          /\ exposure = <<ExpRow("C2", 50, 100)>> \o x
          /\ ews = <<EwsRow("C2", "Covenant breach", "2024-03-01", "Medium")>> \o w
    /\ year_column \in BOOLEAN
    /\ PUBLIC_BASE_URL = BaseUrlFromEnv(<<"https://bank.example", "/">>)
    /\ WEBSITE_HOSTNAME = <<>>

\* The companies and the configured addresses vary over one set of frames
ConfigCases ==
    /\ companies \in ReportCompanies
    /\ financials = <<FinRow("C1", 2023, 80), FinRow("C1", 2024, 250), FinRow("C2", 2024, 120)>>
    /\ covenants = <<CovRow("C2", 100, 12, 20, 11), CovRow("C1", 100, 12, 20, 11)>>
    /\ exposure = <<ExpRow("C2", 50, 100), ExpRow("C1", 90, 100)>>
    /\ ews = <<EwsRow("C2", "Covenant breach", "2024-03-01", "Medium")>>
    /\ year_column = TRUE
    /\ PUBLIC_BASE_URL \in {BaseUrlFromEnv(b) : b \in BaseUrlEnv}
    /\ WEBSITE_HOSTNAME \in {Strip(h) : h \in HostnameEnv}

\* The frames hold C2's rows too, placed where an unfiltered .iloc would read them
InitReport ==
    /\ DataCases \/ ConfigCases
    /\ TEAMS_WORKFLOW_WEBHOOK_URL = <<>>
    /\ today = 1
    /\ store = <<>>
    /\ posts = 0
    /\ resp = NoResp

\* One generate_report_internal call, run to completion
GenerateReport ==
    \E company_id \in CompanyIds, x_agent_id \in AgentIds, pdf_ok \in BOOLEAN :
        \E latest_fin \in SortedLast(OfCompany(financials, company_id)) :
            LET r == generate_report_internal(company_id, x_agent_id, latest_fin, pdf_ok)
            IN /\ resp' = [op |-> "generate_report_internal",
                           company_id |-> company_id,
                           x_agent_id |-> x_agent_id,
                           out |-> r.out,
                           calls |-> r.calls,
                           convert |-> r.convert]
               /\ store' = r.files
               /\ UNCHANGED <<companies, financials, exposure, covenants, ews, year_column,
                              PUBLIC_BASE_URL, WEBSITE_HOSTNAME, TEAMS_WORKFLOW_WEBHOOK_URL,
                              today, posts>>

Next == GenerateReport

Spec == InitReport /\ [][Next]_vars

-----------------------------------------------------------------------------
(* Claims about generate_report_internal, checked under Spec *)

Reported == resp.op = "generate_report_internal"

\* the agent id of the request is present and starts with "agent-"
AgentAccepted(r) ==
    /\ r.x_agent_id # None
    /\ Len(r.x_agent_id[1]) > 0
    /\ r.x_agent_id[1][1] = "agent-"
CompanyKnown(r) == \E i \in 1..Len(companies) : companies[i].company_id = r.company_id
RowsOf(frame, r) == {i \in 1..Len(frame) : frame[i].company_id = r.company_id}

\* C3 (as claimed): a report request by a valid agent for a known company whose
\* financials, exposure or covenants subset is empty ends with HTTP 400
\* "Insufficient data to generate report".
C3_EmptySubsetIs400 ==
    (/\ Reported /\ AgentAccepted(resp) /\ CompanyKnown(resp)
     /\ (RowsOf(financials, resp) = {} \/ RowsOf(exposure, resp) = {}
         \/ RowsOf(covenants, resp) = {}))
    => (/\ resp.out.exc = "HTTPException"
        /\ resp.out.status_code = 400
        /\ resp.out.detail = "Insufficient data to generate report")

\* C5: a report request whose agent id is missing or lacks the "agent-" prefix ends
\* with 401, and one by a valid agent for an unknown company with 404; in both cases
\* neither the scorer, the extractor nor the assembler was entered and no file was
\* written; and whenever one of them was entered both checks had passed.
C5_RejectedBeforeCore ==
    [][resp'.op = "generate_report_internal" =>
        /\ ~AgentAccepted(resp') =>
              (/\ resp'.out.exc = "HTTPException" /\ resp'.out.status_code = 401
               /\ resp'.calls = <<>> /\ store' = store)
        /\ (AgentAccepted(resp') /\ ~CompanyKnown(resp')) =>
              (/\ resp'.out.exc = "HTTPException" /\ resp'.out.status_code = 404
               /\ resp'.calls = <<>> /\ store' = store)
        /\ resp'.calls # <<>> => (AgentAccepted(resp') /\ CompanyKnown(resp'))]_vars

\* C5 witness: a request for an unknown company was refused with 404 while a report
\* written earlier is still the only thing in the report directory
C5_NotFoundAfterReport ==
    /\ Reported /\ AgentAccepted(resp) /\ ~CompanyKnown(resp)
    /\ resp.out.status_code = 404
    /\ resp.calls = <<>>
    /\ DOMAIN store # {}

\* C10: when the PDF conversion fails the report is still returned, with the Word
\* location (a file of the report directory), its public URL and the extractor's
\* highlights, and with no PDF location and no PDF URL; a PDF URL is returned only
\* when the conversion succeeded.
C10_PdfFailureTolerated ==
    /\ (Reported /\ resp.convert = "failed") =>
          /\ resp.out.exc = "none"
          /\ resp.out.value.status = "report_generated"
          /\ Len(resp.out.value.word_report) > 0
          /\ resp.out.value.word_report[Len(resp.out.value.word_report)] = ".docx"
          /\ (<<"/home/site/wwwroot", "/">> \o resp.out.value.word_report) \in DOMAIN store
          /\ resp.out.value.word_report_url = _make_public_url(Some(resp.out.value.word_report))
          /\ resp.out.value.rag_highlights =
                 generate_rag_highlights(OfCompany(financials, resp.company_id),
                                         OfCompany(covenants, resp.company_id),
                                         OfCompany(exposure, resp.company_id),
                                         OfCompany(ews, resp.company_id)).value
          /\ resp.out.value.pdf_report = None
          /\ resp.out.value.pdf_report_url = None
    /\ (Reported /\ resp.out.exc = "none" /\ resp.out.value.pdf_report_url # None) =>
          resp.convert = "ok"

\* C10 witness: a report with highlights and a public Word URL was returned after a
\* failed conversion
C10_WordOnlyReport ==
    /\ Reported /\ resp.convert = "failed"
    /\ resp.out.exc = "none"
    /\ resp.out.value.word_report_url # None
    /\ Len(resp.out.value.rag_highlights) > 0
    /\ resp.out.value.pdf_report = None

\* a report was returned by the last request
ReportReturned == Reported /\ resp.out.exc = "none"

\* C11 (as claimed): two report requests for different company ids never write the
\* same artifact location.
C11_DifferentCompaniesDistinctLocations ==
    [][(/\ ReportReturned
        /\ resp'.op = "generate_report_internal" /\ resp'.out.exc = "none"
        /\ resp'.company_id # resp.company_id)
       => resp'.out.value.word_report # resp.out.value.word_report]_vars

\* the rows of the requested company in the four tables, as the handler filters them
ReqFin == OfCompany(financials, resp.company_id)
ReqExp == OfCompany(exposure, resp.company_id)
ReqCov == OfCompany(covenants, resp.company_id)
ReqEws == OfCompany(ews, resp.company_id)
MaxYearRows == {j \in 1..Len(ReqFin) : \A k \in 1..Len(ReqFin) : ReqFin[k].year <= ReqFin[j].year}

\* the score and the highlights that the financial row `row` gives
ScoreFromRow(row) == compute_risk_score(<<row>>, ReqExp, ReqCov, ReqEws).value.risk_score
HighlightsFromRow(row) == generate_rag_highlights(<<row>>, ReqCov, ReqExp, ReqEws).value

\* C12 (as claimed): when the financials carry a year, the score returned is
\* computed from the EBITDA of a row of the largest year, whatever the row order;
\* without a year it is computed from the last row.
C12_ScoreFromMaxYear ==
    ReportReturned =>
        IF year_column
        THEN \E j \in MaxYearRows : resp.out.value.risk_score = ScoreFromRow(ReqFin[j])
        ELSE resp.out.value.risk_score = ScoreFromRow(Last(ReqFin))

\* the document written by the last request
WrittenDocument == store[<<"/home/site/wwwroot", "/">> \o resp.out.value.word_report]

\* C17 (as claimed): the financial row rendered in the report's financial summary
\* is the row that gives the returned score and the returned highlights.
C17_SummaryRowIsScoredRow ==
    ReportReturned =>
        /\ resp.out.value.risk_score = ScoreFromRow(WrittenDocument.financial_summary)
        /\ resp.out.value.rag_highlights = HighlightsFromRow(WrittenDocument.financial_summary)

\* the public URL of an Optional location, from the two settings
ExpectedUrl(location) ==
    IF location = None THEN None
    ELSE IF PUBLIC_BASE_URL # <<>> THEN Some(PUBLIC_BASE_URL \o <<"/">> \o location[1])
    ELSE IF WEBSITE_HOSTNAME # <<>>
         THEN Some(<<"https://">> \o WEBSITE_HOSTNAME \o <<"/">> \o location[1])
         ELSE None

\* C13 (as claimed): with PUBLIC_BASE_URL set each public URL is the base, one "/"
\* and the relative location; with PUBLIC_BASE_URL not set the public URLs are
\* absent; an absent location has an absent URL.
C13_NoBaseNoUrl ==
    ReportReturned =>
        /\ PUBLIC_BASE_URL # <<>> =>
              /\ resp.out.value.word_report_url = ExpectedUrl(Some(resp.out.value.word_report))
              /\ resp.out.value.pdf_report_url = ExpectedUrl(resp.out.value.pdf_report)
        /\ PUBLIC_BASE_URL = <<>> =>
              /\ resp.out.value.word_report_url = None
              /\ resp.out.value.pdf_report_url = None
        /\ resp.out.value.pdf_report = None => resp.out.value.pdf_report_url = None

\* C13 (amended): each public URL is PUBLIC_BASE_URL (trimmed of blanks and of
\* trailing "/"), one "/" and the relative location when PUBLIC_BASE_URL is set,
\* else "https://" WEBSITE_HOSTNAME, one "/" and the relative location when
\* WEBSITE_HOSTNAME is set; it is absent only when neither is set; an absent
\* location has an absent URL.
C13_UrlFromBaseOrHostname ==
    ReportReturned =>
        /\ resp.out.value.word_report_url = ExpectedUrl(Some(resp.out.value.word_report))
        /\ resp.out.value.pdf_report_url = ExpectedUrl(resp.out.value.pdf_report)
        /\ (PUBLIC_BASE_URL = <<>> /\ WEBSITE_HOSTNAME = <<>>) =>
              (resp.out.value.word_report_url = None /\ resp.out.value.pdf_report_url = None)
        /\ resp.out.value.pdf_report = None => resp.out.value.pdf_report_url = None

\* C13 witness: with only WEBSITE_HOSTNAME set a report was returned with a Word
\* URL under https://<hostname>/ and, the conversion having failed, no PDF URL
C13_HostnameUrl ==
    /\ ReportReturned
    /\ PUBLIC_BASE_URL = <<>> /\ WEBSITE_HOSTNAME # <<>>
    /\ resp.out.value.word_report_url # None
    /\ resp.out.value.word_report_url[1][1] = "https://"
    /\ resp.out.value.pdf_report = None
    /\ resp.out.value.pdf_report_url = None

-----------------------------------------------------------------------------
(* tools.py: escalate_alert_internal *)

\* bound on the number of webhook posts of one run
MaxPosts == 2

\* resp.text[:300]
MessageLimit == 300
Truncate(text) == SubSeq(text, 1, IF Len(text) < MessageLimit THEN Len(text) ELSE MessageLimit)

\* f"{risk_score:.4f}": the value in ten-thousandths, rounded to nearest
Format4f(x) ==
    IF x.k = "nan" THEN <<"nan">>
    ELSE IF x.k = "inf" THEN (IF x.n < 0 THEN <<"-inf">> ELSE <<"inf">>)
    ELSE LET q == (2 * Abs(x.n) * 10000 + x.d) \div (2 * x.d)
         IN (IF x.n < 0 /\ q > 0 THEN <<"-">> ELSE <<>>)
            \o <<ToString(q \div 10000), ".", ToString((q % 10000) + 10000)>>

\* the "url" of the card's action: extra.get("report_url") if extra else the default
CardUrl(extra) ==
    IF extra = None \/ DOMAIN extra[1] = {}
    THEN Some(<<"https://contoso.example/reports">>)
    ELSE IF "report_url" \in DOMAIN extra[1] THEN Some(extra[1]["report_url"]) ELSE None

AdaptiveCard(company_id, x_agent_id, risk_score, risk_rating, extra) ==
    [type |-> "AdaptiveCard",
     version |-> "1.5",
     title |-> <<"Risk Escalation: ", company_id>>,
     facts |-> [company_id |-> company_id,
                agent |-> x_agent_id[1],
                risk_score |-> IF risk_score = None THEN <<>> ELSE Format4f(risk_score[1]),
                risk_rating |-> IF risk_rating = None THEN "" ELSE risk_rating[1],
                timestamp |-> <<"utcnow", "Z">>],
     url |-> CardUrl(extra)]

\* a status code up to and including 300 taken for success
webhook_ok_inclusive(status_code) == 200 <= status_code /\ status_code <= 300

\* ok = 200 <= resp.status_code < 300
webhook_ok(status_code) == 200 <= status_code /\ status_code < 300

\* delivery is what requests.post does with the card: it answers with a status
\* code and a body, or it raises a RequestException.  The result carries the
\* outcome, the number of posts made and the card posted.
escalate_alert_internal(company_id, x_agent_id, risk_score, risk_rating, extra, delivery) ==
    IF InvalidAgent(x_agent_id)
    THEN [out |-> Raise("HTTPException", 401, "Invalid or missing Agent ID"),
          posted |-> 0, card |-> None]
    ELSE IF TEAMS_WORKFLOW_WEBHOOK_URL = <<>>
    THEN [out |-> Raise("HTTPException", 500, "Teams webhook URL not configured"),
          posted |-> 0, card |-> None]
    ELSE
        LET card == AdaptiveCard(company_id, x_agent_id, risk_score, risk_rating, extra)
        IN IF delivery.kind = "RequestException"
           THEN [out |-> Raise("HTTPException", 502, "Webhook post failed: " \o delivery.error),
                 posted |-> 1, card |-> Some(card)]
           ELSE [out |-> Return([status |-> IF webhook_ok(delivery.status_code)
                                            THEN "alert_escalated" ELSE "failed",
                                 code |-> ToString(delivery.status_code),
                                 message |-> IF webhook_ok(delivery.status_code)
                                             THEN <<>> ELSE Truncate(delivery.text)]),
                 posted |-> 1, card |-> Some(card)]

StatusCodes == {199, 200, 204, 299, 300, 404, 500}
Deliveries ==
    {[kind |-> "response", status_code |-> c, text |-> t] :
        c \in StatusCodes, t \in {<<>>, <<"B", "a", "d">>}}
    \cup {[kind |-> "RequestException", error |-> e] :
            e \in {"Read timed out"}}
Scores == {None, Some(Num(9, 20)), Some(Num(-1, 3))}
Ratings == {None, Some("High")}
Extras == {None, Some(<<>>), Some("report_url" :> <<"https://bank.example/r.docx">>),
           Some("note" :> <<"urgent">>)}
WebhookEnv == {<<>>, <<" ">>, <<"https://hooks.example/teams">>}

InitEscalate ==
    /\ companies = <<>>
    /\ financials = <<>>
    /\ exposure = <<>>
    /\ covenants = <<>>
    /\ ews = <<>>
    /\ year_column = TRUE
    /\ PUBLIC_BASE_URL = <<>>
    /\ WEBSITE_HOSTNAME = <<>>
    /\ TEAMS_WORKFLOW_WEBHOOK_URL \in {Strip(v) : v \in WebhookEnv}
    /\ today = 1
    /\ store = <<>>
    /\ posts = 0
    /\ resp = NoResp

Escalate ==
    /\ posts < MaxPosts
    /\ \E company_id \in {"C1"}, x_agent_id \in AgentIds, risk_score \in Scores,
          risk_rating \in Ratings, extra \in Extras, delivery \in Deliveries :
          LET r == escalate_alert_internal(company_id, x_agent_id, risk_score,
                                           risk_rating, extra, delivery)
          IN /\ resp' = [op |-> "escalate_alert_internal", x_agent_id |-> x_agent_id,
                         delivery |-> delivery, out |-> r.out, card |-> r.card,
                         posted |-> r.posted]
             /\ posts' = posts + r.posted
    /\ UNCHANGED <<companies, financials, exposure, covenants, ews, year_column,
                   PUBLIC_BASE_URL, WEBSITE_HOSTNAME, TEAMS_WORKFLOW_WEBHOOK_URL,
                   today, store>>

NextEscalate == Escalate
SpecEscalate == InitEscalate /\ [][NextEscalate]_vars

-----------------------------------------------------------------------------
(* Claims about escalate_alert_internal, checked under SpecEscalate *)

Escalated == resp.op = "escalate_alert_internal"
SinkReached == Escalated /\ AgentAccepted(resp) /\ TEAMS_WORKFLOW_WEBHOOK_URL # <<>>
Answered2xx ==
    /\ resp.delivery.kind = "response"
    /\ resp.delivery.status_code >= 200
    /\ resp.delivery.status_code <= 299

\* C8 (as claimed): with a valid agent and a configured webhook, a non-2xx answer
\* and a transport failure both end in a returned result with status "failed", no
\* exception leaves the function, and at most one post is made.
C8_DeliveryFailureReturned ==
    (SinkReached /\ ~Answered2xx) =>
        /\ resp.out.exc = "none"
        /\ resp.out.value.status = "failed"
        /\ resp.posted <= 1

\* C9 (as claimed): every returned result has status "escalated" or "failed", and
\* "escalated" exactly when the webhook answered with a 2xx code.
C9_StatusEscalatedOrFailed ==
    (Escalated /\ resp.out.exc = "none") =>
        /\ resp.out.value.status \in {"escalated", "failed"}
        /\ resp.out.value.status = "escalated" <=> Answered2xx

\* C9 (amended): every returned result has status "alert_escalated" or "failed",
\* and "alert_escalated" exactly when the webhook answered with a 2xx code.
C9_StatusAlertEscalatedOrFailed ==
    (Escalated /\ resp.out.exc = "none") =>
        /\ resp.out.value.status \in {"alert_escalated", "failed"}
        /\ resp.out.value.status = "alert_escalated" <=> Answered2xx

\* C9 witness: the webhook answered 300, just past the 2xx range, and the result
\* returned is "failed" with that code
C9_JustPast2xx ==
    /\ SinkReached
    /\ resp.delivery.kind = "response" /\ resp.delivery.status_code = 300
    /\ resp.out.exc = "none"
    /\ resp.out.value.status = "failed"
    /\ resp.out.value.code = "300"

-----------------------------------------------------------------------------
(* mcp_server/main.py: the HTTP and JSON-RPC layer *)

MAX_LIST_LIMIT == 200
DEFAULT_LIST_LIMIT == 50

\* d.get(key), None when the key is missing
DictGet(d, key) == IF key \in DOMAIN d THEN d[key] ELSE None

\* an Optional string that is None or empty
Falsy(v) == v = None \/ v[1] = <<>>

\* validate_agent_id skipped: any key that is present is accepted
resolve_agent_id_unvalidated(primary, alternate) ==
    LET agent_id == IF ~Falsy(primary) THEN primary ELSE alternate
    IN IF Falsy(agent_id)
       THEN Raise("HTTPException", 401, "Invalid or missing Agent ID")
       ELSE Return(agent_id[1])

\* primary and alternate are the Optional values of the x-agent-key and
\* x_agent_key headers
resolve_agent_id(primary, alternate) ==
    LET agent_id == IF ~Falsy(primary) THEN primary ELSE alternate
    IN IF Falsy(agent_id)
       THEN Raise("HTTPException", 401, "Invalid or missing Agent ID")
       ELSE IF ~StartsWithAgent(agent_id[1])
       THEN Raise("HTTPException", 401, "Invalid or missing Agent ID")
       ELSE Return(agent_id[1])

\* what FastAPI sends for the outcome of a REST handler: the value, the status and
\* detail of an HTTPException, or 500 for any other exception
HttpResponse(out) ==
    IF out.exc = "none" THEN [http |-> 200, body |-> out.value]
    ELSE IF out.exc = "HTTPException"
    THEN [http |-> out.status_code, body |-> [kind |-> "http_error", detail |-> out.detail]]
    ELSE [http |-> 500, body |-> [kind |-> "http_error", detail |-> "Internal Server Error"]]

\* frame.iloc[offset: offset + limit] for offset >= 0
Slice(frame, offset, limit) ==
    SubSeq(frame, offset + 1, IF offset + limit < Len(frame) THEN offset + limit ELSE Len(frame))

\* min(max(limit, 1), MAX_LIST_LIMIT)
ClampLimit(limit) == IF limit < 1 THEN 1 ELSE IF limit > MAX_LIST_LIMIT THEN MAX_LIST_LIMIT ELSE limit

\* GET /resources/companies
get_companies_endpoint(x_agent_key, x_agent_key_alt, limit, offset) ==
    LET agent == resolve_agent_id(x_agent_key, x_agent_key_alt)
    IN IF agent.exc # "none" THEN agent
       ELSE Return([kind |-> "rows", rows |-> Slice(companies, offset, ClampLimit(limit))])

\* GET /resources/financials|exposure|covenants|ews/{company_id}
get_frame_endpoint(frame, company_id, x_agent_key, x_agent_key_alt) ==
    LET agent == resolve_agent_id(x_agent_key, x_agent_key_alt)
    IN IF agent.exc # "none" THEN agent
       ELSE Return([kind |-> "rows", rows |-> OfCompany(frame, company_id)])

\* the dict generate_report_internal returned, passed on as the response
Passed(r) ==
    IF r.out.exc # "none" THEN [out |-> r.out, files |-> r.files]
    ELSE [out |-> Return([kind |-> "report", report |-> r.out.value]), files |-> r.files]

\* POST /tools/generate-report/{company_id}: outcome and report directory
generate_report_entry(company_id, x_agent_key, x_agent_key_alt, latest_fin, pdf_ok) ==
    LET agent == resolve_agent_id(x_agent_key, x_agent_key_alt)
    IN IF agent.exc # "none" THEN [out |-> agent, files |-> store]
       ELSE Passed(generate_report_internal(company_id, Some(agent.value), latest_fin, pdf_ok))

\* str(req_id), req_id an Optional token
StrId(req_id) == IF req_id = None THEN "None" ELSE req_id[1]

jsonrpc_result(req_id, result) ==
    [kind |-> "jsonrpc_result", jsonrpc |-> "2.0", id |-> Some(StrId(req_id)), result |-> result]

jsonrpc_error(req_id, code, message) ==
    [kind |-> "jsonrpc_error", jsonrpc |-> "2.0",
     id |-> IF req_id = None THEN None ELSE Some(StrId(req_id)),
     code |-> code, message |-> message]

ValueError(text) == Raise("ValueError", 0, text)

\* _require(args, "company_id"): the argument is missing or empty
MissingCompanyId(args) == "company_id" \notin DOMAIN args \/ args["company_id"] = ""

\* mcp_tools_dispatch for the four frame tools
FrameTool(field, frame, args) ==
    IF MissingCompanyId(args) THEN ValueError("Missing required argument 'company_id'")
    ELSE Return([kind |-> "rows", company_id |-> args["company_id"],
                 rows |-> OfCompany(frame, args["company_id"])])

\* what the generateReport tool makes of the dict r.out.value returned by
\* generate_report_internal
Generated(args, r) ==
    IF r.out.exc # "none" THEN [out |-> r.out, files |-> r.files]
    ELSE [out |-> Return([kind |-> "generated",
                          company_id |-> args["company_id"],
                          word_path |-> DictGet(r.out.value, "word_path"),
                          pdf_path |-> DictGet(r.out.value, "pdf_path"),
                          created_at |-> <<"utcnow", "Z">>,
                          format |-> IF "format" \in DOMAIN args
                                     THEN args["format"] ELSE "pdf"]),
          files |-> r.files]

\* name is an Optional tool name, args the arguments dict.  The result carries
\* the outcome and the report directory after the call.
mcp_tools_dispatch(name, args, agent_id, latest_fin, pdf_ok) ==
    IF name = Some("getCompanies")
    THEN [out |-> Return([kind |-> "rows",
                          rows |-> Slice(companies,
                                         IF "offset" \in DOMAIN args THEN args["offset"] ELSE 0,
                                         ClampLimit(IF "limit" \in DOMAIN args THEN args["limit"]
                                                    ELSE DEFAULT_LIST_LIMIT))]),
          files |-> store]
    ELSE IF name = Some("getFinancials")
    THEN [out |-> FrameTool("financials", financials, args), files |-> store]
    ELSE IF name = Some("getExposure")
    THEN [out |-> FrameTool("exposure", exposure, args), files |-> store]
    ELSE IF name = Some("getCovenants")
    THEN [out |-> FrameTool("covenants", covenants, args), files |-> store]
    ELSE IF name = Some("getEws")
    THEN [out |-> FrameTool("ews", ews, args), files |-> store]
    ELSE IF name = Some("generateReport")
    THEN IF MissingCompanyId(args)
         THEN [out |-> ValueError("Missing required argument 'company_id'"), files |-> store]
         ELSE Generated(args, generate_report_internal(args["company_id"], Some(agent_id),
                                                       latest_fin, pdf_ok))
    ELSE [out |-> ValueError("Unknown tool"), files |-> store]

\* the payload of a POST: request.json() fails, gives a JSON value that is no
\* object, or gives an object with id, method and params
BadJson == [json |-> "invalid"]
ArrayJson == [json |-> "array"]
RpcCall(id, method, name, arguments) ==
    [json |-> "object", id |-> id, method |-> method, name |-> name, arguments |-> arguments]

\* the answer to tools/call, called being the outcome of mcp_tools_dispatch
ToolsCallAnswer(req_id, called) ==
    IF called.out.exc = "none"
    THEN [body |-> jsonrpc_result(req_id, [kind |-> "content", content |-> called.out.value]),
          files |-> called.files]
    ELSE IF called.out.exc = "ValueError"
    THEN [body |-> jsonrpc_error(req_id, -32602, "Invalid params: " \o called.out.detail),
          files |-> called.files]
    ELSE [body |-> jsonrpc_error(req_id, -32000, "Server error"), files |-> called.files]

\* POST /mcp: the body returned (always with HTTP 200) and the report directory
mcp_endpoint(x_agent_key, x_agent_key_alt, payload, latest_fin, pdf_ok) ==
    LET agent == resolve_agent_id(x_agent_key, x_agent_key_alt)
        req_id == IF payload.json = "object" THEN payload.id ELSE None
    IN IF agent.exc # "none"
       THEN [body |-> jsonrpc_error(req_id, -32001, "Unauthorized: " \o agent.detail),
             files |-> store]
       ELSE IF payload.json = "invalid"
       THEN [body |-> jsonrpc_error(None, -32700, "Parse error"), files |-> store]
       ELSE IF payload.json # "object"
       THEN [body |-> jsonrpc_error(None, -32600, "Invalid Request (expected object)"),
             files |-> store]
       ELSE IF payload.method = Some("initialize")
       THEN [body |-> jsonrpc_result(req_id, [kind |-> "initialize",
                                              protocolVersion |-> "2024-11-05"]),
             files |-> store]
       ELSE IF payload.method = Some("notifications/initialized")
       THEN [body |-> jsonrpc_result(req_id, [kind |-> "ok"]), files |-> store]
       ELSE IF payload.method = Some("tools/list")
       THEN [body |-> jsonrpc_result(req_id, [kind |-> "tools"]), files |-> store]
       ELSE IF payload.method = Some("tools/call")
       THEN ToolsCallAnswer(req_id, mcp_tools_dispatch(payload.name, payload.arguments,
                                                       agent.value, latest_fin, pdf_ok))
       ELSE [body |-> jsonrpc_error(req_id, -32601, "Method not found"), files |-> store]

\* POST /: forwarded to mcp_endpoint when a key header is present, else guidance
root_passthrough(x_agent_key, x_agent_key_alt, payload, latest_fin, pdf_ok) ==
    IF ~Falsy(x_agent_key) \/ ~Falsy(x_agent_key_alt)
    THEN mcp_endpoint(x_agent_key, x_agent_key_alt, payload, latest_fin, pdf_ok)
    ELSE IF payload.json # "invalid"
    THEN [body |-> [kind |-> "message", message |-> "Use POST /mcp with API key header."],
          files |-> store]
    ELSE [body |-> [kind |-> "message",
                    message |-> "Root accepts GET 200; use POST /mcp for MCP."],
          files |-> store]

-----------------------------------------------------------------------------
(* The server: requests to the routes of main.py in any order *)

GoodKey == Some(<<"agent-", "demo-001">>)
BadKey == Some(<<"x-", "agent-", "1">>)
\* the values of the x-agent-key and x_agent_key headers of a request
HeaderPairs ==
    {<<None, None>>, <<GoodKey, None>>, <<None, GoodKey>>, <<Some(<<>>), GoodKey>>,
     <<BadKey, None>>, <<BadKey, GoodKey>>, <<None, BadKey>>}

CompanyArgs == {"company_id" :> c : c \in CompanyIds}
Payloads ==
    {BadJson, ArrayJson,
     RpcCall(Some("1"), Some("initialize"), None, <<>>),
     RpcCall(None, Some("notifications/initialized"), None, <<>>),
     RpcCall(Some("1"), Some("tools/list"), None, <<>>),
     RpcCall(Some("1"), Some("ping"), None, <<>>),
     RpcCall(Some("1"), None, None, <<>>),
     RpcCall(Some("2"), Some("tools/call"), None, <<>>),
     RpcCall(Some("2"), Some("tools/call"), Some("dropTables"), <<>>),
     RpcCall(Some("2"), Some("tools/call"), Some("getCompanies"), <<>>),
     RpcCall(Some("2"), Some("tools/call"), Some("getCompanies"), "limit" :> 1),
     RpcCall(Some("2"), Some("tools/call"), Some("getFinancials"), <<>>),
     RpcCall(Some("2"), Some("tools/call"), Some("getFinancials"), "company_id" :> "C1"),
     RpcCall(Some("2"), Some("tools/call"), Some("getExposure"), "company_id" :> "C1"),
     RpcCall(Some("2"), Some("tools/call"), Some("getCovenants"), "company_id" :> "C1"),
     RpcCall(Some("2"), Some("tools/call"), Some("getEws"), "company_id" :> "C1"),
     RpcCall(Some("3"), Some("tools/call"), Some("generateReport"), <<>>),
     RpcCall(Some("3"), Some("tools/call"), Some("generateReport"), "company_id" :> "")}
    \cup {RpcCall(Some("3"), Some("tools/call"), Some("generateReport"), a) : a \in CompanyArgs}

\* the company a payload asks a report for, if it does
ReportTarget(payload) ==
    IF /\ payload.json = "object"
       /\ payload.method = Some("tools/call")
       /\ payload.name = Some("generateReport")
       /\ "company_id" \in DOMAIN payload.arguments
    THEN Some(payload.arguments["company_id"]) ELSE None
\* the rows the sort can leave last and the conversion outcomes, for a payload
LatestFor(payload) ==
    IF ReportTarget(payload) = None THEN {None}
    ELSE SortedLast(OfCompany(financials, ReportTarget(payload)[1]))
ConvertsFor(payload) == IF ReportTarget(payload) = None THEN {FALSE} ELSE BOOLEAN

\* C1 has every kind of row, C2 has no exposure row, C9 is no company
InitServer ==
    /\ companies = <<CompanyRow("C1", AcmeCorp), CompanyRow("C2", <<"Zenith">>)>>
    /\ financials = <<FinRow("C1", 2023, 80), FinRow("C1", 2024, 250), FinRow("C2", 2024, 120)>>
    /\ covenants = <<CovRow("C2", 100, 12, 20, 11), CovRow("C1", 100, 12, 20, 11)>>
    /\ exposure = <<ExpRow("C1", 90, 100)>>
    /\ ews = <<EwsRow("C1", "Missed payment", "2024-01-01", "High")>>
    /\ year_column = TRUE
    /\ PUBLIC_BASE_URL \in {BaseUrlFromEnv(b) : b \in {<<>>, <<"https://bank.example", "/">>}}
    /\ WEBSITE_HOSTNAME = <<>>
    /\ TEAMS_WORKFLOW_WEBHOOK_URL = <<>>
    /\ today = 1
    /\ store = <<>>
    /\ posts = 0
    /\ resp = NoResp

ServerFrame ==
    UNCHANGED <<companies, financials, exposure, covenants, ews, year_column,
                PUBLIC_BASE_URL, WEBSITE_HOSTNAME, TEAMS_WORKFLOW_WEBHOOK_URL, today, posts>>

\* the response recorded for a REST route
RestResponse(route, h, out) ==
    [op |-> route, x_agent_key |-> h[1], x_agent_key_alt |-> h[2],
     http |-> HttpResponse(out).http, body |-> HttpResponse(out).body]

\* the response of a REST or JSON-RPC handler that may write reports is sent and
\* the report directory is as the handler left it
Answered(recorded, files) == resp' = recorded /\ store' = files
RestAnswered(route, h, r) == Answered(RestResponse(route, h, r.out), r.files)
RpcAnswered(route, h, payload, r) ==
    Answered([op |-> route, x_agent_key |-> h[1], x_agent_key_alt |-> h[2],
              payload |-> payload, http |-> 200, body |-> r.body], r.files)

GetCompanies ==
    /\ \E h \in HeaderPairs, limit \in {0, 1, DEFAULT_LIST_LIMIT}, offset \in {0, 1} :
          resp' = RestResponse("GET /resources/companies", h,
                               get_companies_endpoint(h[1], h[2], limit, offset))
    /\ store' = store /\ ServerFrame

GetFinancials ==
    /\ \E h \in HeaderPairs, company_id \in CompanyIds :
          resp' = RestResponse("GET /resources/financials", h,
                               get_frame_endpoint(financials, company_id, h[1], h[2]))
    /\ store' = store /\ ServerFrame

GetExposure ==
    /\ \E h \in HeaderPairs, company_id \in CompanyIds :
          resp' = RestResponse("GET /resources/exposure", h,
                               get_frame_endpoint(exposure, company_id, h[1], h[2]))
    /\ store' = store /\ ServerFrame

GetCovenants ==
    /\ \E h \in HeaderPairs, company_id \in CompanyIds :
          resp' = RestResponse("GET /resources/covenants", h,
                               get_frame_endpoint(covenants, company_id, h[1], h[2]))
    /\ store' = store /\ ServerFrame

GetEws ==
    /\ \E h \in HeaderPairs, company_id \in CompanyIds :
          resp' = RestResponse("GET /resources/ews", h,
                               get_frame_endpoint(ews, company_id, h[1], h[2]))
    /\ store' = store /\ ServerFrame

GenerateReportEntry ==
    /\ \E h \in HeaderPairs, company_id \in CompanyIds, pdf_ok \in BOOLEAN :
          \E latest_fin \in SortedLast(OfCompany(financials, company_id)) :
             RestAnswered("POST /tools/generate-report", h,
                          generate_report_entry(company_id, h[1], h[2], latest_fin, pdf_ok))
    /\ ServerFrame

McpEndpoint ==
    /\ \E h \in HeaderPairs, payload \in Payloads :
          \E latest_fin \in LatestFor(payload), pdf_ok \in ConvertsFor(payload) :
             RpcAnswered("POST /mcp", h, payload,
                         mcp_endpoint(h[1], h[2], payload, latest_fin, pdf_ok))
    /\ ServerFrame

RootPassthrough ==
    /\ \E h \in HeaderPairs, payload \in Payloads :
          \E latest_fin \in LatestFor(payload), pdf_ok \in ConvertsFor(payload) :
             RpcAnswered("POST /", h, payload,
                         root_passthrough(h[1], h[2], payload, latest_fin, pdf_ok))
    /\ ServerFrame

NextServer ==
    \/ GetCompanies
    \/ GetFinancials
    \/ GetExposure
    \/ GetCovenants
    \/ GetEws
    \/ GenerateReportEntry
    \/ McpEndpoint
    \/ RootPassthrough

SpecServer == InitServer /\ [][NextServer]_vars

-----------------------------------------------------------------------------
(* Claims about the routes of main.py, checked under SpecServer *)

RestRoutes ==
    {"GET /resources/companies", "GET /resources/financials", "GET /resources/exposure",
     "GET /resources/covenants", "GET /resources/ews", "POST /tools/generate-report"}
RpcRoutes == {"POST /mcp", "POST /"}

\* the key a request presents: the x-agent-key header, or x_agent_key when that
\* one is missing or empty
PresentedKey(r) ==
    IF r.x_agent_key # None /\ r.x_agent_key[1] # <<>> THEN r.x_agent_key ELSE r.x_agent_key_alt
\* the request presents no key, or one that does not start with "agent-"
NoValidKey(r) ==
    \/ PresentedKey(r) = None
    \/ PresentedKey(r)[1] = <<>>
    \/ PresentedKey(r)[1][1] # "agent-"

\* a JSON-RPC request by an authenticated agent for a report of company c
ReportCalled(c) ==
    /\ resp.op = "POST /mcp"
    /\ ~NoValidKey(resp)
    /\ ReportTarget(resp.payload) = Some(c)
KnownCompany(c) == \E i \in 1..Len(companies) : companies[i].company_id = c
HasRows(frame, c) == \E i \in 1..Len(frame) : frame[i].company_id = c

\* C14 (as claimed): a tools/call of generateReport by an authenticated agent for
\* a company id with no row in the companies table, or with an empty required
\* subset, is answered with an error other than the generic server fault -32000.
C14_ClientFailureNotServerError ==
    \A c \in CompanyIds :
        (/\ ReportCalled(c)
         /\ \/ ~KnownCompany(c)
            \/ ~HasRows(financials, c) \/ ~HasRows(exposure, c) \/ ~HasRows(covenants, c))
        => (resp.body.kind = "jsonrpc_error" /\ resp.body.code # -32000)

\* C15 (as claimed): a successful tools/call of generateReport returns a word_path
\* that is present and is the location of a Word file in the report directory.
C15_WordPathReturned ==
    (/\ resp.op = "POST /mcp"
     /\ resp.body.kind = "jsonrpc_result"
     /\ resp.body.result.kind = "content"
     /\ resp.body.result.content.kind = "generated")
    => /\ resp.body.result.content.word_path # None
       /\ (<<"/home/site/wwwroot", "/">> \o resp.body.result.content.word_path) \in DOMAIN store

\* C16: a request to a resource route, to the report route, to /mcp or to POST /
\* that presents no key, or a key that does not start with "agent-", is answered
\* with an error or with the guidance message only - 401 on the REST routes,
\* -32001 on /mcp - and leaves the report directory as it was.
C16_NoDataWithoutIdentity ==
    [][(resp'.op \in RestRoutes \cup RpcRoutes /\ NoValidKey(resp')) =>
          /\ resp'.body.kind \in {"http_error", "jsonrpc_error", "message"}
          /\ resp'.op \in RestRoutes => resp'.http = 401
          /\ resp'.op = "POST /mcp" => (resp'.body.kind = "jsonrpc_error" /\ resp'.body.code = -32001)
          /\ store' = store]_vars

\* C16 witness: with a report already written, a generateReport call on /mcp with
\* a key that lacks the prefix was refused with -32001
C16_RefusedAfterReport ==
    /\ resp.op = "POST /mcp"
    /\ resp.x_agent_key = BadKey
    /\ ReportTarget(resp.payload) = Some("C1")
    /\ resp.body.kind = "jsonrpc_error"
    /\ resp.body.code = -32001
    /\ DOMAIN store # {}

=============================================================================
